---- MODULE Spec2Model ----
(***************************************************************************)
(* minterm (src/src/main.rs): a truth table with B input bits and O output *)
(* bits is turned into one Equation per output bit (the OR of its Terms),  *)
(* and every Equation is reduced by Equation::simplify, which repeatedly   *)
(* merges one mergeable pair of terms and calls itself again.              *)
(*                                                                         *)
(* Vec positions are 1-based here (TLA+ sequences) and 0-based in the      *)
(* source; variable indices inside a Term (Variable.0) are 0-based as in   *)
(* the source.  A Variable (usize, bool) is the tuple <<index, polarity>>. *)
(***************************************************************************)
EXTENDS Integers, Sequences, FiniteSets, TLC

VARIABLES
    input_bits,   \* main: input_bits (count of --ivar)
    output_bits,  \* main: output_bits (count of --ovar), = outvars.len()
    table,        \* Truth.table: Vec<Entry>, as returned by parse
    eqns,         \* main: eqns, the term list of every Equation
    e,            \* main: loop variable of `for e in 0..eqns.len()` (1-based)
    depth,        \* recursion depth of the running simplify call
    idx_remove,   \* simplify: idx_remove (term location, variable index)
    term_remove,  \* simplify: term_remove
    pc,           \* position of the program
    ta, tb, res   \* test::term_merge: the two terms and mergeable's result

vars == <<input_bits, output_bits, table, eqns, e, depth, idx_remove,
          term_remove, pc, ta, tb, res>>

\* Largest number of output cells (rows times output bits) of a table.  A
\* complete table has 2^B rows: 8 cells allow B = 1 with up to four outputs,
\* B = 2 with up to two and B = 3 with one.
MaxCells == 8
\* Longest term, and number of distinct variable indices, handed to mergeable
\* directly.
MaxTermLen == 2

----------------------------------------------------------------------------
(* Helpers on sequences and integers                                       *)

RECURSIVE Pow2(_)
Pow2(n) == IF n = 0 THEN 1 ELSE 2 * Pow2(n - 1)

MinOf(S) == CHOOSE x \in S : \A y \in S : x <= y
MaxOf(S) == CHOOSE x \in S : \A y \in S : x >= y

\* Vec::remove(loc)
RemoveAt(s, loc) == [k \in 1..(Len(s) - 1) |-> IF k < loc THEN s[k] ELSE s[k + 1]]

----------------------------------------------------------------------------
(* Bit, Entry                                                              *)

\* Bit::new
BitNew(b) == IF b THEN "On" ELSE "Off"

\* The B-bit input row of pattern p, most significant bit first.
InputRow(p, B) == [k \in 1..B |-> BitNew(((p \div Pow2(B - k)) % 2) = 1)]

----------------------------------------------------------------------------
(* Term                                                                    *)

\* Variant: the variables are numbered from 1.
ComputeFromOne(bits) == [k \in 1..Len(bits) |-> <<k, bits[k] = "On">>]

\* Term::compute: one Variable per input bit, in position order.  Rows come
\* from parse, which only builds On and Off bits.
Compute(bits) == [k \in 1..Len(bits) |-> <<k - 1, bits[k] = "On">>]

\* other.bits.iter().find(|&o| o.0 == i): position of the first match, 0 for None
FindIndex(other, i) ==
    LET hits == {k \in 1..Len(other) : other[k][1] = i}
    IN  IF hits = {} THEN 0 ELSE MinOf(hits)

\* Variant: the comparison of the lengths is left out.
MergeableNoLength(self, other) ==
    IF \E k \in 1..Len(self) : FindIndex(other, self[k][1]) = 0 THEN FALSE
    ELSE LET n_different ==
                 Cardinality({k \in 1..Len(self) :
                     other[FindIndex(other, self[k][1])][2] # self[k][2]})
         IN  n_different = 1

\* Term::mergeable
Mergeable(self, other) ==
    IF Len(self) # Len(other) THEN FALSE
    ELSE IF \E k \in 1..Len(self) : FindIndex(other, self[k][1]) = 0 THEN FALSE
    ELSE LET n_different ==
                 Cardinality({k \in 1..Len(self) :
                     other[FindIndex(other, self[k][1])][2] # self[k][2]})
         IN  n_different = 1

\* Variant: idx is taken for a position of the Vec instead of a variable index.
RemoveIndexByPosition(t, idx) ==
    [k \in 1..(Len(t) - (IF idx + 1 \in 1..Len(t) THEN 1 ELSE 0)) |->
        IF k < idx + 1 THEN t[k] ELSE t[k + 1]]

\* Term::remove_index
RemoveIndex(t, idx) == SelectSeq(t, LAMBDA b : b[1] # idx)

----------------------------------------------------------------------------
(* Equation                                                                *)

\* Equation::new: the terms of output idx (1-based), one per row whose
\* output bit is set, in table order.
RECURSIVE EquationNew(_, _)
EquationNew(tbl, idx) ==
    IF tbl = <<>> THEN <<>>
    ELSE LET rest == EquationNew(Tail(tbl), idx)
         IN  IF Head(tbl).output[idx] THEN <<Compute(Head(tbl).input)>> \o rest
             ELSE rest

\* simplify, inner loop: the first t2 that t1 can be merged with
FirstPartner(terms, t1_loc) ==
    MinOf({t2_loc \in 1..Len(terms) :
              /\ terms[t1_loc] # terms[t2_loc]
              /\ Mergeable(terms[t1_loc], terms[t2_loc])})

\* simplify, outer loop: the locations t1 for which the inner loop finds a t2
MergeLocs(terms) ==
    {t1_loc \in 1..Len(terms) :
        \E t2_loc \in 1..Len(terms) :
            /\ terms[t1_loc] # terms[t2_loc]
            /\ Mergeable(terms[t1_loc], terms[t2_loc])}

\* Variant: the search stops at the first position whose indices agree,
\* whatever the polarities.
DifferingIndexAnyPolarity(t1, t2) ==
    LET n    == IF Len(t1) < Len(t2) THEN Len(t1) ELSE Len(t2)
        hits == {k \in 1..n : t1[k][1] = t2[k][1]}
    IN  IF hits = {} THEN -1 ELSE t1[MinOf(hits)][1]

\* simplify: t1.bits.iter().zip(t2.bits.iter()).find(...): the variable index
\* at the first position where both terms name the same index with opposite
\* polarity, -1 for None
DifferingIndex(t1, t2) ==
    LET n    == IF Len(t1) < Len(t2) THEN Len(t1) ELSE Len(t2)
        hits == {k \in 1..n : t1[k][1] = t2[k][1] /\ t1[k][2] # t2[k][2]}
    IN  IF hits = {} THEN -1 ELSE t1[MinOf(hits)][1]

\* simplify: some pair met by the scan reaches one of the two failure paths
ScanPanics(terms) ==
    \E t1_loc \in MergeLocs(terms) :
        LET t2_loc == FirstPartner(terms, t1_loc)
        IN  \/ Len(terms[t1_loc]) # Len(terms[t2_loc])
            \/ DifferingIndex(terms[t1_loc], terms[t2_loc]) = -1

\* simplify: the outer loop is not left at the first pair, so the values
\* that survive the scan are those of the last t1 that has a partner
ScanT1(terms) == MaxOf(MergeLocs(terms))

\* Variant: the merged-away term t2 is left in the list.
ApplyMergeKeepT2(terms, t1_loc, idx, t2_loc) ==
    [terms EXCEPT ![t1_loc] = RemoveIndex(@, idx)]

\* Variant: t2 is removed first, and the location of t1 is used unadjusted.
ApplyMergeRemoveFirst(terms, t1_loc, idx, t2_loc) ==
    LET cut == RemoveAt(terms, t2_loc)
    IN  IF t1_loc <= Len(cut) THEN [cut EXCEPT ![t1_loc] = RemoveIndex(@, idx)]
        ELSE cut

\* simplify: self.terms[idx_remove.0].remove_index(idx_remove.1);
\*           self.terms.remove(term_remove)
ApplyMerge(terms, t1_loc, idx, t2_loc) ==
    RemoveAt([terms EXCEPT ![t1_loc] = RemoveIndex(@, idx)], t2_loc)

----------------------------------------------------------------------------
(* Inputs                                                                  *)

Swap(s, i, j) == [s EXCEPT ![i] = s[j], ![j] = s[i]]

Ascending(B) == [k \in 1..Pow2(B) |-> k - 1]

\* Row orders: binary counting order with at most one pair of rows exchanged.
RowOrders(B) ==
    {Swap(Ascending(B), i, j) : i \in 1..Pow2(B), j \in 1..Pow2(B)}

\* A complete table: one row per input pattern, in the given order, with the
\* output vectors f.
TableOf(B, ord, f) ==
    [k \in 1..Pow2(B) |-> [input |-> InputRow(ord[k], B), output |-> f[k]]]

\* Malformed variants of a table t: a row missing, a row repeated at the end,
\* the input pattern of a row repeated in the next row, a row short of one
\* input bit or of one output bit.
Broken(t, B, O) ==
    LET n == Len(t)
    IN  {RemoveAt(t, k) : k \in 1..n}
        \cup {Append(t, t[k]) : k \in {j \in 1..n : (n + 1) * O <= MaxCells}}
        \cup {[t EXCEPT ![(k % n) + 1].input = t[k].input] : k \in 1..n}
        \cup {[t EXCEPT ![k].input = SubSeq(@, 1, B - 1)] : k \in 1..n}
        \cup {[t EXCEPT ![k].output = SubSeq(@, 1, O - 1)] : k \in 1..n}

Shapes == {bo \in (1..MaxCells) \X (1..MaxCells) : Pow2(bo[1]) * bo[2] <= MaxCells}

\* Terms built directly by Term::new, as test::term_merge does.
Variables == (0..(MaxTermLen - 1)) \X BOOLEAN
TermUniverse == UNION {[1..n -> Variables] : n \in 0..MaxTermLen}

----------------------------------------------------------------------------
(* The program: main                                                       *)

Init ==
    /\ \E bo \in Shapes :
          /\ input_bits = bo[1]
          /\ output_bits = bo[2]
          /\ \E f \in [1..Pow2(bo[1]) -> [1..bo[2] -> BOOLEAN]] :
                \/ \E ord \in RowOrders(bo[1]) : table = TableOf(bo[1], ord, f)
                \/ table \in Broken(TableOf(bo[1], Ascending(bo[1]), f), bo[1], bo[2])
    /\ eqns = <<>>
    /\ e = 0
    /\ depth = 0
    /\ idx_remove = <<0, 0>>
    /\ term_remove = 0
    /\ pc = "parsed"
    /\ ta = <<>> /\ tb = <<>> /\ res = "none"

\* main, lines 340-352: the two checks that end the process with exit(1)
MainRejects ==
    \/ \E k \in 1..Len(table) : Len(table[k].input) # input_bits
    \/ Len(table) # Pow2(input_bits)

CheckTable ==
    /\ pc = "parsed"
    /\ pc' = IF MainRejects THEN "exit" ELSE "checked"
    /\ UNCHANGED <<input_bits, output_bits, table, eqns, e, depth, idx_remove,
                   term_remove, ta, tb, res>>

\* equations, lines 261-266: the assertions
EquationsAsserts ==
    /\ table # <<>>
    /\ \A k \in 1..Len(table) :
          /\ Len(table[k].input) = Len(table[1].input)
          /\ Len(table[k].output) = Len(table[1].output)
    /\ Len(table[1].output) = output_bits

\* equations, then the first pass of the loop of main reaches simplify
Equations ==
    /\ pc = "checked"
    /\ IF EquationsAsserts
       THEN /\ eqns' = [b \in 1..Len(table[1].output) |-> EquationNew(table, b)]
            /\ e' = 1
            /\ pc' = "simplify"
       ELSE /\ pc' = "assert_failed"
            /\ UNCHANGED <<eqns, e>>
    /\ UNCHANGED <<input_bits, output_bits, table, depth, idx_remove,
                   term_remove, ta, tb, res>>

\* One call of simplify that finds a mergeable pair: it rewrites the term
\* list and calls itself.
SimplifyMerge ==
    /\ pc = "simplify"
    /\ LET terms == eqns[e]
           locs  == MergeLocs(terms)
       IN  /\ locs # {}
           /\ IF ScanPanics(terms)
              THEN /\ pc' = "panic"
                   /\ UNCHANGED <<eqns, depth, idx_remove, term_remove>>
              ELSE LET t1_loc == ScanT1(terms)
                       t2_loc == FirstPartner(terms, t1_loc)
                       idx    == DifferingIndex(terms[t1_loc], terms[t2_loc])
                   IN  /\ idx_remove' = <<t1_loc, idx>>
                       /\ term_remove' = t2_loc
                       /\ eqns' = [eqns EXCEPT ![e] =
                                     ApplyMerge(terms, t1_loc, idx, t2_loc)]
                       /\ depth' = depth + 1
                       /\ pc' = "simplify"
    /\ UNCHANGED <<input_bits, output_bits, table, e, ta, tb, res>>

\* One call of simplify that finds no pair: found stays false, the whole
\* recursion returns and main prints the equation and goes to the next one.
SimplifyReturn ==
    /\ pc = "simplify"
    /\ MergeLocs(eqns[e]) = {}
    /\ idx_remove' = <<0, 0>>
    /\ term_remove' = 0
    /\ depth' = 0
    /\ IF e < Len(eqns)
       THEN e' = e + 1 /\ pc' = "simplify"
       ELSE e' = e /\ pc' = "done"
    /\ UNCHANGED <<input_bits, output_bits, table, eqns, ta, tb, res>>

Next == CheckTable \/ Equations \/ SimplifyMerge \/ SimplifyReturn

Spec == Init /\ [][Next]_vars

----------------------------------------------------------------------------
(* Term::mergeable called on terms built by Term::new                      *)

InitTerms ==
    /\ ta \in TermUniverse
    /\ tb \in TermUniverse
    /\ res = "none"
    /\ pc = "terms"
    /\ input_bits = 0 /\ output_bits = 0 /\ table = <<>> /\ eqns = <<>>
    /\ e = 0 /\ depth = 0 /\ idx_remove = <<0, 0>> /\ term_remove = 0

CallMergeable ==
    /\ pc = "terms"
    /\ res' = <<Mergeable(ta, tb), Mergeable(tb, ta)>>
    /\ pc' = "returned"
    /\ UNCHANGED <<input_bits, output_bits, table, eqns, e, depth, idx_remove,
                   term_remove, ta, tb>>

NextTerms == CallMergeable

SpecTerms == InitTerms /\ [][NextTerms]_vars

----------------------------------------------------------------------------
(* Vocabulary of the properties                                            *)

\* The table is a truth table: one fully specified row per B-bit pattern.
ValidTable ==
    /\ Len(table) = Pow2(input_bits)
    /\ \A r \in 1..Len(table) :
          /\ Len(table[r].input) = input_bits
          /\ Len(table[r].output) = output_bits
    /\ \A r, q \in 1..Len(table) : table[r].input = table[q].input => r = q

\* A term is true on an input row iff every variable it lists matches.
Covers(t, input) ==
    \A k \in 1..Len(t) : (input[t[k][1] + 1] = "On") = t[k][2]

\* An equation is the OR of its terms.
Eval(terms, input) == \E k \in 1..Len(terms) : Covers(terms[k], input)

AllInputs(B) == {InputRow(p, B) : p \in 0..(Pow2(B) - 1)}
CoverSet(t, B) == {inp \in AllInputs(B) : Covers(t, inp)}

IndexSet(t) == {t[k][1] : k \in 1..Len(t)}
Literals(t) == {t[k] : k \in 1..Len(t)}
NoIndexTwice(t) == \A k, m \in 1..Len(t) : t[k][1] = t[m][1] => k = m

\* Same variables, opposite polarity on exactly one of them.
Adjacent(a, b) ==
    /\ IndexSet(a) = IndexSet(b)
    /\ Cardinality({i \in IndexSet(a) :
           \E x \in Literals(a), y \in Literals(b) :
               x[1] = i /\ y[1] = i /\ x[2] # y[2]}) = 1

Running == pc \in {"simplify", "done"}

\* The step of one simplify call that merged a pair.
MergeStep == pc = "simplify" /\ depth' = depth + 1

----------------------------------------------------------------------------
\* C1  Soundness: for a valid table, in every state of the simplification
\* (before, during and after it) every equation evaluates on every row to
\* that row's output bit.
Soundness ==
    (Running /\ ValidTable) =>
        \A i \in 1..Len(eqns), r \in 1..Len(table) :
            Eval(eqns[i], table[r].input) = table[r].output[i]

\* A finished equation with a merged term and a row whose output bit is 0.
SoundnessWitness ==
    /\ pc = "done" /\ ValidTable
    /\ \E i \in 1..Len(eqns) :
          /\ \E k \in 1..Len(eqns[i]) : Len(eqns[i][k]) < input_bits
          /\ \E r \in 1..Len(table) : ~table[r].output[i]
          /\ Len(eqns[i]) >= 2

----------------------------------------------------------------------------
\* C3  No redundant term: when simplify has returned for a valid table,
\* every term of every equation covers a row with output bit 1 that no other
\* term of that equation covers.
NoRedundantTerm ==
    (pc = "done" /\ ValidTable) =>
        \A i \in 1..Len(eqns) : \A k \in 1..Len(eqns[i]) :
            \E r \in 1..Len(table) :
                /\ table[r].output[i]
                /\ Covers(eqns[i][k], table[r].input)
                /\ \A j \in 1..Len(eqns[i]) :
                      j # k => ~Covers(eqns[i][j], table[r].input)

\* A finished equation of several terms, one of them the result of a merge.
NoRedundantTermWitness ==
    /\ pc = "done" /\ ValidTable
    /\ \E i \in 1..Len(eqns) :
          /\ Len(eqns[i]) >= 3
          /\ \E k \in 1..Len(eqns[i]) : Len(eqns[i][k]) < input_bits

----------------------------------------------------------------------------
\* C5  Merge correctness: a merge step of simplify on the pair (t1, t2) puts
\* in place of t1 a term that covers exactly what t1 and t2 cover together,
\* lists one index fewer than t1, and is the cube obtained with the roles of
\* t1 and t2 exchanged; t2 leaves the list and every other term stays as it
\* was, in the same order.
MergeCorrect ==
    LET terms  == eqns[e]
        new    == eqns'[e]
        t1_loc == idx_remove'[1]
        t2_loc == term_remove'
        t1     == terms[t1_loc]
        t2     == terms[t2_loc]
        at     == IF t2_loc < t1_loc THEN t1_loc - 1 ELSE t1_loc
        merged == new[at]
        low    == IF t1_loc < t2_loc THEN t1_loc ELSE t2_loc
        high   == IF t1_loc < t2_loc THEN t2_loc ELSE t1_loc
    IN  /\ t1_loc \in 1..Len(terms) /\ t2_loc \in 1..Len(terms) /\ t1_loc # t2_loc
        /\ Adjacent(t1, t2)
        /\ Len(new) = Len(terms) - 1
        /\ CoverSet(merged, input_bits)
              = CoverSet(t1, input_bits) \cup CoverSet(t2, input_bits)
        /\ Cardinality(IndexSet(merged)) = Cardinality(IndexSet(t1)) - 1
        /\ Len(merged) = Len(t1) - 1
        /\ Literals(merged) = Literals(t1) \cap Literals(t2)
        /\ RemoveAt(new, at) = RemoveAt(RemoveAt(terms, high), low)

MergeCorrectness == [][MergeStep => MergeCorrect]_vars

\* A merge has just happened in a list that held other terms too, the
\* removed term standing before the rewritten one.
MergeCorrectnessWitness ==
    /\ pc = "simplify" /\ depth >= 1
    /\ Len(eqns[e]) >= 3
    /\ term_remove < idx_remove[1]

----------------------------------------------------------------------------
\* C8  Termination: every simplify call that finds a pair shortens the term
\* list by exactly one term and one surviving term by exactly one index, an
\* equation built from n rows is merged at most n - 1 times, and simplify
\* ends: a measure that is never negative falls with every step.
MergeShrinks ==
    LET terms == eqns[e]
        new   == eqns'[e]
        at    == IF term_remove' < idx_remove'[1] THEN idx_remove'[1] - 1
                 ELSE idx_remove'[1]
    IN  /\ Len(new) = Len(terms) - 1
        /\ Len(new[at]) = Len(terms[idx_remove'[1]]) - 1
        /\ \A k \in 1..Len(new) : k # at => \E j \in 1..Len(terms) : new[k] = terms[j]

OnesOf(i) == Cardinality({r \in 1..Len(table) : table[r].output[i]})

MergeBound ==
    pc = "simplify" => (depth = 0 \/ depth <= OnesOf(e) - 1)

Terminated == pc \in {"done", "exit", "assert_failed", "panic"}

\* What is left to do: the terms and the calls of the equations not yet
\* finished, after the two steps that lead to simplify.
RECURSIVE Remaining(_)
Remaining(i) ==
    IF i > Len(eqns) THEN 0 ELSE Len(eqns[i]) + 1 + Remaining(i + 1)

Measure ==
    CASE pc = "parsed"   -> (Len(table) + 1) * (output_bits + 1) + 2
      [] pc = "checked"  -> (Len(table) + 1) * (output_bits + 1) + 1
      [] pc = "simplify" -> Remaining(e)
      [] OTHER           -> 0

\* Every step brings the end nearer: no run takes more steps than the
\* measure of its first state.
Termination ==
    /\ [][MergeStep => MergeShrinks]_vars
    /\ [][Measure' < Measure /\ Measure' >= 0]_vars
    /\ []MergeBound

\* An equation of at least three rows merged down to a single term.
TerminationWitness ==
    /\ pc = "simplify"
    /\ depth >= 2
    /\ depth = OnesOf(e) - 1
    /\ Len(eqns[e]) = 1

----------------------------------------------------------------------------
\* C10  No failure path in simplify: every term of every equation lists its
\* indices in strictly increasing order, all of them in 0..B-1, so for every
\* mergeable pair of the running equation both terms are as long and the
\* position-by-position search finds the differing variable; the panic is
\* never reached.
Increasing(t) ==
    /\ \A k \in 1..Len(t) : t[k][1] \in 0..(input_bits - 1)
    /\ \A k \in 1..(Len(t) - 1) : t[k][1] < t[k + 1][1]

NoFailurePath ==
    /\ pc # "panic"
    /\ Running =>
          /\ \A i \in 1..Len(eqns) : \A k \in 1..Len(eqns[i]) : Increasing(eqns[i][k])
          /\ \A k, j \in 1..Len(eqns[e]) :
                Adjacent(eqns[e][k], eqns[e][j]) =>
                    /\ Len(eqns[e][k]) = Len(eqns[e][j])
                    /\ \E m \in 1..Len(eqns[e][k]) :
                          /\ eqns[e][k][m][1] = eqns[e][j][m][1]
                          /\ eqns[e][k][m][2] # eqns[e][j][m][2]

\* A running equation that holds a mergeable pair of already merged terms.
NoFailurePathWitness ==
    /\ pc = "simplify"
    /\ \E k, j \in 1..Len(eqns[e]) :
          /\ Adjacent(eqns[e][k], eqns[e][j])
          /\ Len(eqns[e][k]) < input_bits
          /\ eqns[e][k][1][1] > 0

----------------------------------------------------------------------------
\* C6  mergeable(a, b), for terms that list no index twice, is true iff a
\* and b list the same set of indices and differ in the polarity of exactly
\* one of them; terms of different length are never mergeable, and
\* mergeable(a, b) = mergeable(b, a).
MergeableIffAdjacent ==
    (pc = "returned" /\ NoIndexTwice(ta) /\ NoIndexTwice(tb)) =>
        /\ res[1] = Adjacent(ta, tb)
        /\ (Len(ta) # Len(tb) => ~res[1])
        /\ res[1] = res[2]

\* mergeable answered true for two terms that list their variables in
\* different orders.
MergeableIffAdjacentWitness ==
    /\ pc = "returned" /\ NoIndexTwice(ta) /\ NoIndexTwice(tb)
    /\ res[1]
    /\ Len(ta) = 2
    /\ ta[1][1] # tb[1][1]

----------------------------------------------------------------------------
(* Cubes, implicants and covers of one output                              *)

Cubes == {c \in SUBSET ((0..(input_bits - 1)) \X BOOLEAN) :
             \A x, y \in c : x[1] = y[1] => x = y}

CubeCovers(c, input) == \A x \in c : (input[x[1] + 1] = "On") = x[2]

Implicant(c, i) ==
    \A r \in 1..Len(table) : CubeCovers(c, table[r].input) => table[r].output[i]

Prime(c, i) == Implicant(c, i) /\ \A x \in c : ~Implicant(c \ {x}, i)

PrimeImplicants(i) == {c \in Cubes : Prime(c, i)}

OneRows(i) == {r \in 1..Len(table) : table[r].output[i]}

CoversAll(S, i) ==
    \A r \in OneRows(i) : \E c \in S : CubeCovers(c, table[r].input)

\* C2  Minimum cover: when simplify has returned for a valid table, the
\* terms of every equation are prime implicants of its output, and no set of
\* fewer implicants covers all the rows where the output is 1.
MinimumCover ==
    (pc = "done" /\ ValidTable) =>
        \A i \in 1..Len(eqns) :
            /\ \A k \in 1..Len(eqns[i]) : Prime(Literals(eqns[i][k]), i)
            /\ \A S \in SUBSET PrimeImplicants(i) :
                  CoversAll(S, i) => Cardinality(S) >= Len(eqns[i])

\* C4  Essential prime implicants: when simplify has returned for a valid
\* table, every prime implicant that is the only prime implicant covering
\* some row with output bit 1 is one of the terms of the equation.
EssentialIncluded ==
    (pc = "done" /\ ValidTable) =>
        \A i \in 1..Len(eqns) : \A c \in PrimeImplicants(i) :
            (\E r \in OneRows(i) :
                \A d \in PrimeImplicants(i) :
                    CubeCovers(d, table[r].input) => d = c)
            => \E k \in 1..Len(eqns[i]) : Literals(eqns[i][k]) = c

----------------------------------------------------------------------------
\* C7  Validation boundary: a table whose row count is not 2^B, whose rows
\* differ in input or output length, or which holds the same input pattern
\* twice is rejected, and no equation is built for it.
Malformed ==
    \/ Len(table) # Pow2(input_bits)
    \/ \E r, q \in 1..Len(table) :
          \/ Len(table[r].input) # Len(table[q].input)
          \/ Len(table[r].output) # Len(table[q].output)
    \/ \E r, q \in 1..Len(table) : r # q /\ table[r].input = table[q].input

MalformedRejected ==
    Malformed => (pc \in {"parsed", "checked", "exit", "assert_failed"} /\ eqns = <<>>)

----------------------------------------------------------------------------
\* C9  Fixed point: when simplify has returned for a valid table, no two
\* terms of an equation are mergeable; an output that is 1 on every row is
\* left as the single term without variables, and an output that is 1 on
\* exactly one row is left as that row's minterm.
FixedPoint ==
    (pc = "done" /\ ValidTable) =>
        \A i \in 1..Len(eqns) :
            /\ \A k, j \in 1..Len(eqns[i]) : ~Adjacent(eqns[i][k], eqns[i][j])
            /\ Cardinality(OneRows(i)) = Len(table) => eqns[i] = << <<>> >>
            /\ \A r \in 1..Len(table) :
                  OneRows(i) = {r} =>
                      /\ Len(eqns[i]) = 1
                      /\ Len(eqns[i][1]) = input_bits
                      /\ Covers(eqns[i][1], table[r].input)

====
